---------------------------- MODULE Spec2Model ----------------------------
(***************************************************************************)
(* A model of the vector layer of duckdb-rs (crates/duckdb/src/core):      *)
(* FlatVector and the nested vector kinds (vector.rs), SelectionVector     *)
(* (selection_vector.rs) and Value (value.rs).                             *)
(*                                                                         *)
(* The Rust side is modelled field by field (ptr, capacity, owned, len).   *)
(* The engine side of every FFI call is modelled by its effect on the      *)
(* native object behind the handle: whether it exists, how often it was    *)
(* destroyed, how many elements its buffer holds, the buffer's contents    *)
(* and its validity mask.                                                  *)
(***************************************************************************)
EXTENDS Integers, Sequences, FiniteSets, TLC

\* ------------------------------------------------------------------ bounds
MaxInst == 2
\* FlatVector instances (Rust values) that exist over a run
MaxHandles == 2
\* native vector handles the engine hands out over a run
MaxCap == 3
\* largest capacity a caller asks for
MaxValues == 2
\* Value instances / native scalar handles over a run
MaxItems == 3
\* longest index sequence given to a SelectionVector constructor
MaxNulls == 2
\* set_null calls on distinct rows in the validity specification

\* --------------------------------------------------------- program constants
NULL == 0
\* the null pointer: ptr.is_null(), std::ptr::null_mut()
duckdb_vector_size == 2
\* duckdb_vector_size(), the engine's standard vector size (2048), scaled
Uninit == -1
\* an element of a native buffer that was allocated and never written
BitsPerWord == 64
\* rows per validity word: capacity().div_ceil(64)

Handles == 1..MaxHandles
Insts == 1..MaxInst
Elem == 0..1
Caps == 1..MaxCap
Vals == 1..MaxValues

VARIABLES
    fv,         \* FlatVector instances: [st, ptr, capacity, owned]
    created,    \* native vector h was handed out by the engine
    destroys,   \* how often duckdb_destroy_vector ran on native vector h
    alloc,      \* elements in the buffer behind native vector h
    data,       \* the buffer behind native vector h, a sequence of alloc[h]
    validity,   \* the validity mask of native vector h: [present, words]
    kind,       \* "flat", "list", "array" or "struct"
    childOf,    \* the child vector of a nested native vector, or NULL
    lsize,      \* duckdb_list_vector_get_size of native vector h
    dict,       \* what duckdb_slice_vector left on h: [sliced, dict_len, sel, count, id]
    dv,         \* the DictionaryVector the run follows: [st, ptr]
    val,        \* Value instances: [st, ptr]
    vcreated,   \* native scalar p was created by the engine
    vreleases,  \* how often duckdb_destroy_value ran on native scalar p
    vcontent,   \* the scalar held by native scalar p
    sel,        \* the SelectionVector construction in progress
    last,       \* the outcome of the last operation that returns or fails
    nulled,     \* rows on which set_null was called, per native vector
    heap        \* "ok", "clobbered" (a write went past a buffer) or "fault"

instVars == <<fv, dv>>
nativeVars == <<created, destroys, alloc, data, validity, kind, childOf, lsize, dict>>
valueVars == <<val, vcreated, vreleases, vcontent>>
vars == <<fv, created, destroys, alloc, data, validity, kind, childOf, lsize, dict,
          dv, val, vcreated, vreleases, vcontent, sel, last, nulled, heap>>

\* ------------------------------------------------------------- FlatVector
NoInst == [st |-> "none", ptr |-> NULL, capacity |-> 0, owned |-> FALSE]

\* an instance after its drop: the value is gone, its fields with it
Gone == [st |-> "dropped", ptr |-> NULL, capacity |-> 0, owned |-> FALSE]

Live(i) == fv[i].st = "live"

\* the native vector behind a handle exists: created and not destroyed
Valid(h) == h # NULL /\ created[h] /\ destroys[h] = 0

Usable(i) == Live(i) /\ Valid(fv[i].ptr) /\ heap = "ok"

\* clone as a field-for-field copy, the owned flag included
clone_keeps_owned(self) ==
    [st |-> "live", ptr |-> self.ptr, capacity |-> self.capacity, owned |-> self.owned]

\* impl Clone for FlatVector
clone(self) ==
    [st |-> "live", ptr |-> self.ptr, capacity |-> self.capacity, owned |-> FALSE]

\* impl From<duckdb_vector> for FlatVector
from(ptr) ==
    [st |-> "live", ptr |-> ptr, capacity |-> duckdb_vector_size, owned |-> FALSE]

\* FlatVector::with_capacity
with_capacity(ptr, capacity) ==
    [st |-> "live", ptr |-> ptr, capacity |-> capacity, owned |-> FALSE]

\* FlatVector::allocate_new_vector_with_capacity, ptr the new native vector
allocate_new_vector_with_capacity(ptr, capacity) ==
    [st |-> "live", ptr |-> ptr, capacity |-> capacity, owned |-> TRUE]

\* FlatVector::capacity
capacity(self) == self.capacity

\* the condition under which Drop for FlatVector calls duckdb_destroy_vector
drop_destroys(self) == self.owned /\ self.ptr # NULL

NoMask == [present |-> FALSE, words |-> <<>>]
NoDict == [sliced |-> FALSE, dict_len |-> 0, sel |-> <<>>, count |-> 0, id |-> 0]
FreshBuffer(n) == [k \in 1..n |-> Uninit]


\* a handle (an instance slot) the run has not used yet; handed out in order
FreshHandle(h) == ~created[h] /\ \A g \in 1..(h - 1) : created[g]
FreshInst(i) == fv[i].st = "none" /\ \A j \in 1..(i - 1) : fv[j].st # "none"

\* ------------------------------------------------------------------ Value
NoVal == [st |-> "none", ptr |-> NULL]
FreshScalar(p) == ~vcreated[p] /\ \A q \in 1..(p - 1) : vcreated[q]
FreshVal(k) == val[k].st = "none" /\ \A j \in 1..(k - 1) : val[j].st # "none"
Scalars == [null : {FALSE}, v : Elem] \cup {[null |-> TRUE, v |-> 0]}

\* a Drop for Value that never calls duckdb_destroy_value
value_drop_never_releases(self) == FALSE

\* the condition under which Drop for Value calls duckdb_destroy_value
value_drop_releases(self) == self.ptr # NULL

\* Value::null and the typed constructors (impl_duckdb_create_value!): each
\* wraps the one native scalar the engine has just created
ValueNew(k, p, c) ==
    /\ heap = "ok" /\ FreshVal(k) /\ FreshScalar(p)
    /\ val' = [val EXCEPT ![k] = [st |-> "live", ptr |-> p]]
    /\ vcreated' = [vcreated EXCEPT ![p] = TRUE]
    /\ vcontent' = [vcontent EXCEPT ![p] = c]
    /\ UNCHANGED <<instVars, nativeVars, vreleases, sel, last, nulled, heap>>

\* impl From<duckdb_value> for Value, given a null pointer
ValueFromNull(k) ==
    /\ heap = "ok" /\ FreshVal(k)
    /\ val' = [val EXCEPT ![k] = [st |-> "live", ptr |-> NULL]]
    /\ UNCHANGED <<instVars, nativeVars, vcreated, vreleases, vcontent, sel, last,
                   nulled, heap>>

\* Value::to_int64: duckdb_get_int64 on the borrowed handle
to_int64(self) == vcontent[self.ptr].v

ToInt64(k) ==
    /\ heap = "ok" /\ val[k].st = "live" /\ val[k].ptr # NULL
    /\ last' = [op |-> "to_int64", who |-> k, res |-> to_int64(val[k])]
    /\ UNCHANGED <<instVars, nativeVars, valueVars, sel, nulled, heap>>

\* impl Display for Value: the text comes from a transient native string that
\* the CString takes over and frees when fmt returns
Display(k) ==
    /\ heap = "ok" /\ val[k].st = "live" /\ val[k].ptr # NULL
    /\ last' = [op |-> "display", who |-> k, res |-> vcontent[val[k].ptr].v]
    /\ UNCHANGED <<instVars, nativeVars, valueVars, sel, nulled, heap>>

\* impl Drop for Value; duckdb_destroy_value frees the scalar, then ptr = null
DropValue(k) ==
    /\ heap = "ok" /\ val[k].st = "live"
    /\ vreleases' = IF value_drop_releases(val[k])
                    THEN [vreleases EXCEPT ![val[k].ptr] = @ + 1]
                    ELSE vreleases
    /\ val' = [val EXCEPT ![k] = [st |-> "dropped", ptr |-> NULL]]
    /\ UNCHANGED <<instVars, nativeVars, vcreated, vcontent, sel, last, nulled, heap>>

\* ------------------------------------------------- FlatVector: lifecycle
\* FlatVector::allocate_new_vector_with_capacity; duckdb_create_vector hands
\* out a new native vector with a buffer of `cap` elements and no mask
AllocateNewVector(i, h, cap) ==
    /\ heap = "ok" /\ FreshInst(i) /\ FreshHandle(h)
    /\ fv' = [fv EXCEPT ![i] = allocate_new_vector_with_capacity(h, cap)]
    /\ created' = [created EXCEPT ![h] = TRUE]
    /\ alloc' = [alloc EXCEPT ![h] = cap]
    /\ data' = [data EXCEPT ![h] = FreshBuffer(cap)]
    /\ UNCHANGED <<dv, destroys, validity, kind, childOf, lsize, dict, valueVars,
                   sel, last, nulled, heap>>

\* the engine hands over a flat column of the standard vector size and the
\* caller wraps it: FlatVector::from(ptr)
FromEngine(i, h) ==
    /\ heap = "ok" /\ FreshInst(i) /\ FreshHandle(h)
    /\ fv' = [fv EXCEPT ![i] = from(h)]
    /\ created' = [created EXCEPT ![h] = TRUE]
    /\ alloc' = [alloc EXCEPT ![h] = duckdb_vector_size]
    /\ data' = [data EXCEPT ![h] = FreshBuffer(duckdb_vector_size)]
    /\ UNCHANGED <<dv, destroys, validity, kind, childOf, lsize, dict, valueVars,
                   sel, last, nulled, heap>>

\* the engine hands over a nested column (list, array or struct) whose child
\* vector c it owns too; From<duckdb_vector> for ListVector wraps the handle
\* in `entries: FlatVector::from(ptr)`
FromEngineNested(i, h, c, k) ==
    /\ heap = "ok" /\ FreshInst(i) /\ FreshHandle(h) /\ c = h + 1
    /\ fv' = [fv EXCEPT ![i] = from(h)]
    /\ created' = [created EXCEPT ![h] = TRUE, ![c] = TRUE]
    /\ alloc' = [alloc EXCEPT ![h] = duckdb_vector_size, ![c] = duckdb_vector_size]
    /\ data' = [data EXCEPT ![h] = FreshBuffer(duckdb_vector_size),
                            ![c] = FreshBuffer(duckdb_vector_size)]
    /\ kind' = [kind EXCEPT ![h] = k]
    /\ childOf' = [childOf EXCEPT ![h] = c]
    /\ UNCHANGED <<dv, destroys, validity, lsize, dict, valueVars, sel, last,
                   nulled, heap>>

\* FlatVector::from(other.unowned_ptr()): construction from a borrowed handle
FromBorrowed(i, j) ==
    /\ heap = "ok" /\ FreshInst(i) /\ Live(j) /\ fv[j].ptr # NULL
    /\ fv' = [fv EXCEPT ![i] = from(fv[j].ptr)]
    /\ UNCHANGED <<dv, nativeVars, valueVars, sel, last, nulled, heap>>

\* FlatVector::clone
Clone(i, j) ==
    /\ heap = "ok" /\ FreshInst(i) /\ Live(j)
    /\ fv' = [fv EXCEPT ![i] = clone(fv[j])]
    /\ UNCHANGED <<dv, nativeVars, valueVars, sel, last, nulled, heap>>

\* impl Drop for FlatVector; duckdb_destroy_vector frees the native vector
\* and nulls the pointer it is given
DropFlatVector(i) ==
    /\ heap = "ok" /\ Live(i)
    /\ destroys' = IF drop_destroys(fv[i])
                   THEN [destroys EXCEPT ![fv[i].ptr] = @ + 1]
                   ELSE destroys
    /\ fv' = [fv EXCEPT ![i] = Gone]
    /\ UNCHANGED <<dv, created, alloc, data, validity, kind, childOf, lsize, dict,
                   valueVars, sel, last, nulled, heap>>

\* ------------------------------------------------------ SelectionVector
\* new_copy recording one index more than it copied
new_copy_off_by_one(vec) == [buf |-> vec, len |-> Len(vec) + 1]

\* SelectionVector::new_copy: a native buffer of vec.len() indices holding a
\* copy of vec, and len = vec.len()
new_copy(vec) == [buf |-> vec, len |-> Len(vec)]

\* len() counting one index more than the vector holds
sel_len_plus_one(self) == self.len + 1

\* SelectionVector::len
sel_len(self) == self.len

\* ------------------------------------------- FlatVector: aliasing, slicing
\* reference taking over the other instance's ownership flag with its capacity
reference_takes_ownership(self, other) ==
    [self EXCEPT !.capacity = other.capacity, !.owned = other.owned]

\* FlatVector::reference, the instance's own fields: self.capacity = other.capacity
reference(self, other) == [self EXCEPT !.capacity = other.capacity]

\* FlatVector::assign_to_constant, the instance's own fields: self.capacity = 1
assign_to_constant(self) == [self EXCEPT !.capacity = 1]

\* FlatVector::reference; duckdb_vector_reference_vector makes the native
\* vector behind self share what is behind other (buffer, mask, children).
\* The buffer is copied here, not shared: no specification below writes
\* through two handles after a reference.
Reference(i, j) ==
    /\ Usable(i) /\ Usable(j) /\ i # j
    /\ LET h == fv[i].ptr
           g == fv[j].ptr
       IN  /\ alloc' = [alloc EXCEPT ![h] = alloc[g]]
           /\ data' = [data EXCEPT ![h] = data[g]]
           /\ validity' = [validity EXCEPT ![h] = validity[g]]
           /\ kind' = [kind EXCEPT ![h] = kind[g]]
           /\ childOf' = [childOf EXCEPT ![h] = childOf[g]]
           /\ lsize' = [lsize EXCEPT ![h] = lsize[g]]
           /\ dict' = [dict EXCEPT ![h] = dict[g]]
           /\ nulled' = [nulled EXCEPT ![h] = nulled[g]]
    /\ fv' = [fv EXCEPT ![i] = reference(fv[i], fv[j])]
    /\ UNCHANGED <<dv, created, destroys, valueVars, sel, last, heap>>

AllValid == 0..(BitsPerWord - 1)

\* FlatVector::assign_to_constant; duckdb_vector_reference_value turns the
\* native vector into a constant vector whose buffer holds the one value
\* ("Sets the internal duckdb buffer to be of size 1"); the Value is borrowed
AssignToConstant(i, k) ==
    /\ Usable(i) /\ val[k].st = "live" /\ val[k].ptr # NULL
    /\ LET h == fv[i].ptr
           c == vcontent[val[k].ptr]
       IN  /\ alloc' = [alloc EXCEPT ![h] = 1]
           /\ data' = [data EXCEPT ![h] = <<c.v>>]
           /\ validity' = [validity EXCEPT ![h] =
                  IF c.null THEN [present |-> TRUE, words |-> <<AllValid \ {0}>>]
                  ELSE NoMask]
           /\ kind' = [kind EXCEPT ![h] = "flat"]
           /\ childOf' = [childOf EXCEPT ![h] = NULL]
           /\ lsize' = [lsize EXCEPT ![h] = 0]
           /\ dict' = [dict EXCEPT ![h] = NoDict]
           /\ nulled' = [nulled EXCEPT ![h] = IF c.null THEN {0} ELSE {}]
    /\ fv' = [fv EXCEPT ![i] = assign_to_constant(fv[i])]
    /\ UNCHANGED <<dv, created, destroys, valueVars, sel, last, heap>>

NoDictionaryVector == [st |-> "none", ptr |-> NULL]

\* impl From<duckdb_vector> for DictionaryVector
dictionary_from(ptr) == [st |-> "live", ptr |-> ptr]

\* FlatVector::slice; duckdb_slice_vector(ptr, dict_len, sel, sel.len()) makes
\* the native vector a dictionary over its old contents; the SelectionVector
\* is consumed; the result wraps the same handle
Slice(i, dict_len, selection_vector) ==
    /\ Usable(i) /\ dv.st = "none"
    /\ dict' = [dict EXCEPT ![fv[i].ptr] =
           [sliced |-> TRUE, dict_len |-> dict_len, sel |-> selection_vector.buf,
            count |-> sel_len(selection_vector), id |-> 0]]
    /\ dv' = dictionary_from(fv[i].ptr)
    /\ UNCHANGED <<fv, created, destroys, alloc, data, validity, kind, childOf,
                   lsize, valueVars, sel, last, nulled, heap>>

\* FlatVector::set_dictionary_id on a vector that was sliced;
\* duckdb_set_dictionary_vector_id records the id on the native dictionary
SetDictionaryId(i, dict_id) ==
    /\ Usable(i) /\ dict[fv[i].ptr].sliced
    /\ dict' = [dict EXCEPT ![fv[i].ptr].id = dict_id]
    /\ UNCHANGED <<instVars, created, destroys, alloc, data, validity, kind, childOf,
                   lsize, valueVars, sel, last, nulled, heap>>

\* a DictionaryVector going out of scope: the type has no Drop, the value is
\* gone and nothing else happens
DropDictionaryVector ==
    /\ heap = "ok" /\ dv.st = "live"
    /\ dv' = NoDictionaryVector
    /\ UNCHANGED <<fv, nativeVars, valueVars, sel, last, nulled, heap>>

\* --------------------------------- ListVector, ArrayVector, StructVector
RECURSIVE PowerOfTwoFrom(_, _)
PowerOfTwoFrom(p, n) == IF p >= n THEN p ELSE PowerOfTwoFrom(2 * p, n)

\* a reserve that sets the child buffer to the size asked for, shrinking it
\* when less is asked for than it holds
reserve_exact(cur, required) == required

\* ListVector::reserve; duckdb_list_vector_reserve leaves a child buffer that
\* is large enough alone and otherwise grows it to the next power of two
reserve(cur, required) ==
    IF required <= cur THEN cur ELSE PowerOfTwoFrom(1, required)

Grown(buf, n) == [k \in 1..n |-> IF k <= Len(buf) THEN buf[k] ELSE Uninit]

IsList(j) == Usable(j) /\ kind[fv[j].ptr] = "list"

\* ListVector::len
list_len(h) == lsize[h]

\* ListVector::is_empty
is_empty(h) == list_len(h) = 0

\* ListVector::child: reserve(capacity), then a view of the child vector
ListChild(i, j, cap) ==
    /\ IsList(j) /\ FreshInst(i)
    /\ LET c == childOf[fv[j].ptr]
           n == reserve(alloc[c], cap)
       IN  /\ alloc' = [alloc EXCEPT ![c] = n]
           /\ data' = [data EXCEPT ![c] = Grown(data[c], n)]
           /\ fv' = [fv EXCEPT ![i] = with_capacity(c, cap)]
           /\ last' = [op |-> "child", res |-> c, reserved |-> TRUE]
    /\ UNCHANGED <<dv, created, destroys, validity, kind, childOf, lsize, dict,
                   valueVars, sel, nulled, heap>>

\* ListVector::struct_child: reserve(capacity), then StructVector::from(child),
\* which is the bare handle
ListStructChild(j, cap) ==
    /\ IsList(j)
    /\ LET c == childOf[fv[j].ptr]
           n == reserve(alloc[c], cap)
       IN  /\ alloc' = [alloc EXCEPT ![c] = n]
           /\ data' = [data EXCEPT ![c] = Grown(data[c], n)]
           /\ last' = [op |-> "struct_child", res |-> c, reserved |-> TRUE]
    /\ UNCHANGED <<instVars, created, destroys, validity, kind, childOf, lsize, dict,
                   valueVars, sel, nulled, heap>>

\* ListVector::array_child: ArrayVector::from(child); no capacity, no reserve
ListArrayChild(j) ==
    /\ IsList(j)
    /\ last' = [op |-> "array_child", res |-> childOf[fv[j].ptr], reserved |-> FALSE]
    /\ UNCHANGED <<instVars, nativeVars, valueVars, sel, nulled, heap>>

\* ListVector::list_child: ListVector::from(child); no capacity, no reserve
ListListChild(j) ==
    /\ IsList(j)
    /\ last' = [op |-> "list_child", res |-> childOf[fv[j].ptr], reserved |-> FALSE]
    /\ UNCHANGED <<instVars, nativeVars, valueVars, sel, nulled, heap>>

\* ListVector::set_len: duckdb_list_vector_set_size
SetLen(j, new_len) ==
    /\ IsList(j)
    /\ lsize' = [lsize EXCEPT ![fv[j].ptr] = new_len]
    /\ UNCHANGED <<instVars, created, destroys, alloc, data, validity, kind, childOf,
                   dict, valueVars, sel, last, nulled, heap>>

\* ArrayVector::child and StructVector::child: a view of the child vector
\* with the capacity the caller names; nothing is reserved
NestedChild(i, j, cap) ==
    /\ Usable(j) /\ kind[fv[j].ptr] \in {"array", "struct"} /\ FreshInst(i)
    /\ fv' = [fv EXCEPT ![i] = with_capacity(childOf[fv[j].ptr], cap)]
    /\ UNCHANGED <<dv, nativeVars, valueVars, sel, last, nulled, heap>>

\* ------------------------------------------------------ FlatVector: copy
\* the assertion FlatVector::copy opens with
copy_checks(self, d) == Len(d) <= capacity(self)

\* a copy that starts at the second element
Written_from_second(buf, d) ==
    [k \in 1..Len(buf) |-> IF 1 < k /\ k <= Len(d) THEN d[k] ELSE buf[k]]

\* as_mut_slice()[0..d.len()].copy_from_slice(d), as far as the buffer reaches
Written(buf, d) == [k \in 1..Len(buf) |-> IF k <= Len(d) THEN d[k] ELSE buf[k]]

\* FlatVector::copy. The slice it writes through has `capacity` elements
\* whatever the buffer holds, so a copy longer than the buffer runs past it:
\* undefined behaviour, either memory after the buffer is overwritten or the
\* process faults
Copy(i, d) ==
    /\ Usable(i)
    /\ LET h == fv[i].ptr
       IN  IF ~copy_checks(fv[i], d)
           THEN /\ last' = [op |-> "copy", res |-> "panic"]
                /\ UNCHANGED <<data, heap>>
           ELSE IF Len(d) <= alloc[h]
           THEN /\ data' = [data EXCEPT ![h] = Written(data[h], d)]
                /\ last' = [op |-> "copy", res |-> "ok"]
                /\ UNCHANGED heap
           ELSE /\ \E outcome \in {"clobbered", "fault"} :
                     /\ heap' = outcome
                     /\ data' = IF outcome = "clobbered"
                                THEN [data EXCEPT ![h] = Written(data[h], d)]
                                ELSE data
                /\ last' = [op |-> "copy", res |-> "ub"]
    /\ UNCHANGED <<instVars, created, destroys, alloc, validity, kind, childOf, lsize,
                   dict, valueVars, sel, nulled>>

\* ListVector::set_child: self.child(data.len()).copy(data), then
\* self.set_len(data.len()); the view is dropped inside, and owns nothing
SetChild(j, d) ==
    /\ IsList(j)
    /\ LET h == fv[j].ptr
           c == childOf[h]
           n == reserve(alloc[c], Len(d))
           view == with_capacity(c, Len(d))
       IN  /\ copy_checks(view, d) /\ Len(d) <= n
           /\ alloc' = [alloc EXCEPT ![c] = n]
           /\ data' = [data EXCEPT ![c] = Written(Grown(data[c], n), d)]
           /\ lsize' = [lsize EXCEPT ![h] = Len(d)]
    /\ UNCHANGED <<instVars, created, destroys, validity, kind, childOf, dict,
                   valueVars, sel, last, nulled, heap>>

\* FlatVector::as_slice_with_len: the first len elements of the buffer
as_slice_with_len(self, len) == SubSeq(data[self.ptr], 1, len)

\* FlatVector::as_slice, called and read: a slice of `capacity` elements
\* whatever the buffer holds. Past the buffer the read is undefined
\* behaviour: it yields whatever lies behind the buffer (indeterminate
\* elements), or the process faults
AsSlice(i) ==
    /\ Usable(i)
    /\ IF capacity(fv[i]) <= alloc[fv[i].ptr]
       THEN /\ last' = [op |-> "as_slice",
                        res |-> as_slice_with_len(fv[i], capacity(fv[i]))]
            /\ UNCHANGED heap
       ELSE /\ last' = [op |-> "as_slice",
                        res |-> data[fv[i].ptr] \o
                                FreshBuffer(capacity(fv[i]) - alloc[fv[i].ptr])]
            /\ heap' \in {"ok", "fault"}
    /\ UNCHANGED <<instVars, nativeVars, valueVars, sel, nulled>>

\* Inserter::insert; duckdb_vector_assign_string_element(ptr, index, value)
\* stores the value in slot `index` of the buffer and checks no bound: past
\* the buffer the write is undefined behaviour
Insert(i, index, value) ==
    /\ Usable(i)
    /\ LET h == fv[i].ptr
       IN  IF index < alloc[h]
           THEN /\ data' = [data EXCEPT ![h][index + 1] = value]
                /\ last' = [op |-> "insert", res |-> "ok"]
                /\ UNCHANGED heap
           ELSE /\ heap' \in {"clobbered", "fault"}
                /\ last' = [op |-> "insert", res |-> "ub"]
                /\ UNCHANGED data
    /\ UNCHANGED <<instVars, created, destroys, alloc, validity, kind, childOf, lsize,
                   dict, valueVars, sel, nulled>>

\* -------------------------------------------------- FlatVector: validity
\* capacity().div_ceil(64): the words of a mask over n rows
EntryCount(n) == (n + BitsPerWord - 1) \div BitsPerWord

\* an ensure_validity_writable that starts a new all-valid mask every time
ensure_validity_resets(mask, rows) ==
    [present |-> TRUE, words |-> [w \in 1..EntryCount(rows) |-> AllValid]]

\* duckdb_vector_ensure_validity_writable: a vector without a mask gets one
\* with every row valid; a mask that exists is left as it is
ensure_validity_writable(mask, rows) ==
    IF mask.present THEN mask
    ELSE [present |-> TRUE, words |-> [w \in 1..EntryCount(rows) |-> AllValid]]

\* duckdb_validity_set_row_invalid: clear bit row % 64 of word row / 64
set_row_invalid(mask, row) ==
    [mask EXCEPT !.words[(row \div BitsPerWord) + 1] = @ \ {row % BitsPerWord}]

\* duckdb_validity_row_is_valid: bit row % 64 of word row / 64
row_is_valid(mask, row) ==
    (row % BitsPerWord) \in mask.words[(row \div BitsPerWord) + 1]

\* FlatVector::row_is_null: no mask means every row is valid
row_is_null(self, row) ==
    IF ~validity[self.ptr].present THEN FALSE
    ELSE ~row_is_valid(validity[self.ptr], row)

\* FlatVector::validity_slice: the words of the mask, if there is one
mask_slice(mask, cap) ==
    IF mask.present
    THEN [some |-> TRUE, words |-> SubSeq(mask.words, 1, EntryCount(cap))]
    ELSE [some |-> FALSE, words |-> <<>>]

validity_slice(self) == mask_slice(validity[self.ptr], capacity(self))

\* FlatVector::set_null
SetNull(i, row) ==
    /\ Usable(i) /\ row < capacity(fv[i]) /\ row < alloc[fv[i].ptr]
    /\ LET h == fv[i].ptr
       IN  /\ validity' = [validity EXCEPT ![h] =
                  set_row_invalid(ensure_validity_writable(validity[h], alloc[h]), row)]
           /\ nulled' = [nulled EXCEPT ![h] = @ \cup {row}]
    /\ UNCHANGED <<instVars, created, destroys, alloc, data, kind, childOf, lsize,
                   dict, valueVars, sel, last, heap>>

\* FlatVector::validity_slice, called
ValiditySlice(i) ==
    /\ Usable(i) /\ capacity(fv[i]) <= alloc[fv[i].ptr]
    /\ last' = [op |-> "validity_slice", res |-> validity_slice(fv[i])]
    /\ UNCHANGED <<instVars, nativeVars, valueVars, sel, nulled, heap>>

\* FlatVector::init_get_validity_slice
InitGetValiditySlice(i) ==
    /\ Usable(i) /\ capacity(fv[i]) <= alloc[fv[i].ptr]
    /\ LET h == fv[i].ptr
           mask == ensure_validity_writable(validity[h], alloc[h])
       IN  /\ validity' = [validity EXCEPT ![h] = mask]
           /\ last' = [op |-> "init_get_validity_slice",
                       res |-> mask_slice(mask, capacity(fv[i]))]
    /\ UNCHANGED <<instVars, created, destroys, alloc, data, kind, childOf, lsize,
                   dict, valueVars, sel, nulled, heap>>

\* FlatVector::row_is_null, called
RowIsNull(i, row) ==
    /\ Usable(i) /\ row < capacity(fv[i]) /\ row < alloc[fv[i].ptr]
    /\ last' = [op |-> "row_is_null", res |-> row_is_null(fv[i], row)]
    /\ UNCHANGED <<instVars, nativeVars, valueVars, sel, nulled, heap>>

\* ------------------------------------- SelectionVector: construction
\* Option<usize>, the upper bound of Iterator::size_hint
NoneU == [some |-> FALSE, v |-> 0]
SomeU(n) == [some |-> TRUE, v |-> n]

\* an assertion that only asks for an upper bound
hint_has_upper(lower, upper) == upper.some

\* assert_eq!(Some(lower), upper)
hint_is_exact(lower, upper) == SomeU(lower) = upper

\* debug_assert!(data <= hd.add(len)), data being hd.add(pos): checked in a
\* debug build and compiled out otherwise
debug_assert_passes(debug, pos, len) == debug => pos <= len

Idle ==
    [pc |-> "idle", via |-> "none", src |-> <<>>, items |-> <<>>, lower |-> 0,
     upper |-> NoneU, debug |-> FALSE, allocated |-> FALSE, len |-> 0, buf |-> <<>>,
     pos |-> 0, oob |-> {}, built |-> FALSE, self_len |-> 0]

\* SelectionVector::new_copy, called
NewCopy(vec) ==
    /\ heap = "ok" /\ sel.pc = "idle"
    /\ sel' = [Idle EXCEPT !.pc = "done", !.via = "new_copy", !.src = vec,
                           !.allocated = TRUE, !.len = Len(vec),
                           !.buf = new_copy(vec).buf, !.pos = Len(vec),
                           !.built = TRUE, !.self_len = sel_len(new_copy(vec))]
    /\ UNCHANGED <<instVars, nativeVars, valueVars, last, nulled, heap>>

\* from_iter up to the first write: size_hint, the assertion on it, then
\* duckdb_create_selection_vector(lower). `debug` is the build the call runs
\* in (debug assertions on or off)
FromIterBegin(items, lower, upper, debug) ==
    /\ heap = "ok" /\ sel.pc = "idle"
    /\ sel' = IF ~hint_is_exact(lower, upper)
              THEN [Idle EXCEPT !.pc = "panicked", !.via = "from_iter", !.src = items,
                                !.items = items, !.lower = lower, !.upper = upper,
                                !.debug = debug]
              ELSE [Idle EXCEPT !.pc = "write", !.via = "from_iter", !.src = items,
                                !.items = items, !.lower = lower, !.upper = upper,
                                !.debug = debug, !.allocated = TRUE, !.len = lower,
                                !.buf = FreshBuffer(lower)]
    /\ UNCHANGED <<instVars, nativeVars, valueVars, last, nulled, heap>>

\* one turn of iter.for_each: data.write(item); data = data.add(1); then the
\* debug assertion. A write at a position >= len lands behind the buffer.
FromIterWrite ==
    /\ heap = "ok" /\ sel.pc = "write" /\ sel.items # <<>>
    /\ LET item == Head(sel.items)
           pos == sel.pos
       IN  sel' = [sel EXCEPT
               !.items = Tail(sel.items),
               !.buf = IF pos < sel.len THEN [sel.buf EXCEPT ![pos + 1] = item] ELSE @,
               !.oob = IF pos < sel.len THEN @ ELSE @ \cup {pos},
               !.pos = pos + 1,
               !.pc = IF debug_assert_passes(sel.debug, pos + 1, sel.len)
                      THEN "write" ELSE "panicked"]
    /\ UNCHANGED <<instVars, nativeVars, valueVars, last, nulled, heap>>

\* the producer is exhausted: SelectionVector { ptr, len: len as idx_t }
FromIterFinish ==
    /\ heap = "ok" /\ sel.pc = "write" /\ sel.items = <<>>
    /\ sel' = [sel EXCEPT !.pc = "done", !.built = TRUE, !.self_len = sel.len]
    /\ UNCHANGED <<instVars, nativeVars, valueVars, last, nulled, heap>>

\* impl Drop for SelectionVector (duckdb_destroy_selection_vector), or the
\* caller moving on after a panic; the next construction starts afresh
SelectionVectorEnd ==
    /\ heap = "ok" /\ sel.pc \in {"done", "panicked"}
    /\ sel' = Idle
    /\ UNCHANGED <<instVars, nativeVars, valueVars, last, nulled, heap>>

\* ---------------------------------------------------------- specifications
RECURSIVE SeqsUpTo(_, _)
SeqsUpTo(S, n) ==
    IF n = 0 THEN {<<>>}
    ELSE LET shorter == SeqsUpTo(S, n - 1)
         IN  shorter \cup {Append(q, x) : q \in {r \in shorter : Len(r) = n - 1}, x \in S}

Zeros(n) == [k \in 1..n |-> 0]

Init ==
    /\ fv = [i \in Insts |-> NoInst]
    /\ dv = NoDictionaryVector
    /\ created = [h \in Handles |-> FALSE]
    /\ destroys = [h \in Handles |-> 0]
    /\ alloc = [h \in Handles |-> 0]
    /\ data = [h \in Handles |-> <<>>]
    /\ validity = [h \in Handles |-> NoMask]
    /\ kind = [h \in Handles |-> "flat"]
    /\ childOf = [h \in Handles |-> NULL]
    /\ lsize = [h \in Handles |-> 0]
    /\ dict = [h \in Handles |-> NoDict]
    /\ val = [k \in Vals |-> NoVal]
    /\ vcreated = [p \in Vals |-> FALSE]
    /\ vreleases = [p \in Vals |-> 0]
    /\ vcontent = [p \in Vals |-> [null |-> TRUE, v |-> 0]]
    /\ sel = Idle
    /\ last = [op |-> "none", res |-> 0]
    /\ nulled = [h \in Handles |-> {}]
    /\ heap = "ok"

\* FlatVector instances and the native vectors behind them: creation,
\* aliasing, child access, slicing, destruction
Next ==
    \/ \E i \in Insts, h \in Handles, cap \in {1, MaxCap} : AllocateNewVector(i, h, cap)
    \/ \E i \in Insts, h \in Handles : FromEngine(i, h)
    \/ \E i \in Insts, h \in Handles, c \in Handles, k \in {"list", "array", "struct"} :
           FromEngineNested(i, h, c, k)
    \/ \E i \in Insts, j \in Insts : FromBorrowed(i, j)
    \/ \E i \in Insts, j \in Insts : Clone(i, j)
    \/ \E i \in Insts, j \in Insts : ListChild(i, j, MaxCap)
    \/ \E i \in Insts, j \in Insts : NestedChild(i, j, MaxCap)
    \/ \E i \in Insts, j \in Insts : Reference(i, j)
    \/ \E i \in Insts : Slice(i, duckdb_vector_size, new_copy(Zeros(1)))
    \/ DropDictionaryVector
    \/ \E i \in Insts : DropFlatVector(i)

Spec == Init /\ [][Next]_vars

\* SelectionVector construction
NextSel ==
    \/ \E vec \in SeqsUpTo(Elem, MaxItems) : NewCopy(vec)
    \/ \E items \in SeqsUpTo(Elem, MaxItems), lower \in 0..MaxItems,
          upper \in {NoneU} \cup {SomeU(n) : n \in 0..MaxItems}, debug \in BOOLEAN :
           FromIterBegin(items, lower, upper, debug)
    \/ FromIterWrite
    \/ FromIterFinish
    \/ SelectionVectorEnd

SpecSel == Init /\ [][NextSel]_vars

\* slicing: one native vector, its owner and aliases, every dictionary
\* length and selection length
NextSlice ==
    \/ \E i \in Insts, cap \in Caps : AllocateNewVector(i, 1, cap)
    \/ \E i \in Insts, j \in Insts : Clone(i, j)
    \/ \E i \in Insts, dict_len \in Caps, n \in 0..MaxItems :
           Slice(i, dict_len, new_copy(Zeros(n)))
    \/ DropDictionaryVector
    \/ \E i \in Insts : DropFlatVector(i)

SpecSlice == Init /\ [][NextSlice]_vars

\* the buffer of one native vector, written through its owner and aliases
NextData ==
    \/ \E i \in Insts, cap \in Caps : AllocateNewVector(i, 1, cap)
    \/ \E i \in Insts, j \in Insts : FromBorrowed(i, j)
    \/ \E i \in Insts, j \in Insts : Clone(i, j)
    \/ \E c \in Scalars : ValueNew(1, 1, c)
    \/ \E i \in Insts : AssignToConstant(i, 1)
    \/ \E i \in Insts, d \in SeqsUpTo(Elem, MaxCap) : Copy(i, d)
    \/ \E i \in Insts : DropFlatVector(i)

SpecData == Init /\ [][NextData]_vars

\* the validity mask of one freshly allocated vector: capacities of one word,
\* exactly one word and two words, rows at both ends of each word
ValidityCaps == {1, BitsPerWord, BitsPerWord + 1}
TestRows == {0, 1, BitsPerWord - 1, BitsPerWord}

NextValidity ==
    \/ \E cap \in ValidityCaps : AllocateNewVector(1, 1, cap)
    \/ \E i \in Insts, j \in Insts : Clone(i, j)
    \/ \E i \in Insts, row \in TestRows :
           /\ Live(i) /\ fv[i].ptr # NULL
           /\ Cardinality(nulled[fv[i].ptr] \cup {row}) <= MaxNulls
           /\ SetNull(i, row)
    \/ \E i \in Insts : ValiditySlice(i)
    \/ \E i \in Insts : InitGetValiditySlice(i)
    \/ \E i \in Insts, row \in TestRows : RowIsNull(i, row)
    \/ \E i \in Insts : DropFlatVector(i)

SpecValidity == Init /\ [][NextValidity]_vars

\* one list vector handed over by the engine, its child and views of it
NextList ==
    \/ FromEngineNested(1, 1, 2, "list")
    \/ \E i \in Insts, cap \in 0..MaxCap : ListChild(i, 1, cap)
    \/ \E cap \in 0..MaxCap : ListStructChild(1, cap)
    \/ ListArrayChild(1)
    \/ ListListChild(1)
    \/ \E n \in 0..MaxCap : SetLen(1, n)
    \/ \E d \in SeqsUpTo(Elem, MaxCap) : SetChild(1, d)
    \/ \E i \in Insts \ {1}, d \in SeqsUpTo(Elem, MaxCap) : Copy(i, d)
    \/ \E i \in Insts \ {1} : DropFlatVector(i)

SpecList == Init /\ [][NextList]_vars

\* Values, the operations that borrow them, and their destruction
NextValue ==
    \/ \E k \in Vals, p \in Vals, c \in Scalars : ValueNew(k, p, c)
    \/ \E k \in Vals : ValueFromNull(k)
    \/ \E k \in Vals : ToInt64(k)
    \/ \E k \in Vals : Display(k)
    \/ AllocateNewVector(1, 1, MaxCap)
    \/ \E k \in Vals : AssignToConstant(1, k)
    \/ \E k \in Vals : DropValue(k)

SpecValue == Init /\ [][NextValue]_vars

\* the fields of FlatVector instances under every operation of the type:
\* one vector allocated by the caller and one handed over by the engine;
\* the first instance is put through every operation, the others are its
\* clones, the vectors it references and what references it
NextFrame ==
    \/ \E i \in Insts : AllocateNewVector(i, 1, MaxCap)
    \/ \E i \in Insts : FromEngine(i, 2)
    \/ \E i \in Insts, j \in Insts : Clone(i, j)
    \/ ValueNew(1, 1, [null |-> FALSE, v |-> 0])
    \/ \E i \in Insts : AssignToConstant(i, 1)
    \/ \E j \in Insts : Reference(1, j)
    \/ RowIsNull(1, 0)
    \/ SetNull(1, 0)
    \/ ValiditySlice(1)
    \/ InitGetValiditySlice(1)
    \/ AsSlice(1)
    \/ Copy(1, Zeros(1))
    \/ Insert(1, 0, 0)
    \/ Slice(1, duckdb_vector_size, new_copy(Zeros(1)))
    \/ SetDictionaryId(1, 1)
    \/ DropDictionaryVector
    \/ \E i \in Insts : DropFlatVector(i)

SpecFrame == Init /\ [][NextFrame]_vars

\* ------------------------------------------------------------------ claims
Owners(h) == {i \in Insts : Live(i) /\ fv[i].owned /\ fv[i].ptr = h}

\* C1: a native vector is destroyed at most once, and only by the drop of
\* the one instance that owns it; no handle has two owners; while the owner
\* lives its native vector exists, whatever aliases were dropped meanwhile.
C1_DestroyedOnceByOwner ==
    /\ [](\A h \in Handles :
            /\ destroys[h] <= 1
            /\ Cardinality(Owners(h)) <= 1
            /\ (Owners(h) # {} => Valid(h)))
    /\ [][\A h \in Handles :
            destroys'[h] # destroys[h] => \E i \in Owners(h) : fv'[i] = Gone]_vars

\* the owner of native vector 1 lives on after an alias of it was dropped
C1_Witness ==
    /\ Live(1) /\ fv[1].owned /\ Valid(fv[1].ptr)
    /\ fv[2] = Gone /\ ~created[2]

\* C2: a producer that reports the exact count n and yields more than n
\* items makes from_iter fail, and no index is written at a position >= n.
C2_BoundsCheckUnconditional ==
    (/\ sel.via = "from_iter"
     /\ sel.upper = SomeU(sel.lower)
     /\ Len(sel.src) > sel.lower)
    => (sel.oob = {} /\ sel.pc # "done")

\* C3: from_iter with a size hint that is not exact (no upper bound, or an
\* upper bound other than the lower bound) panics with no buffer allocated,
\* no index written and no SelectionVector built.
C3_InexactHintFailsFirst ==
    (/\ sel.via = "from_iter"
     /\ (~sel.upper.some \/ sel.upper.v # sel.lower))
    => (/\ sel.pc = "panicked"
        /\ ~sel.allocated /\ ~sel.built
        /\ sel.pos = 0 /\ sel.oob = {} /\ sel.buf = <<>>)

\* from_iter has panicked on a hint whose two bounds differ, items pending
C3_Witness ==
    /\ sel.pc = "panicked" /\ sel.upper.some /\ sel.upper.v # sel.lower
    /\ Len(sel.items) > 0

\* C4: a SelectionVector built from s by new_copy, or by from_iter with the
\* size hint (Len(s), Some(Len(s))), has len() = Len(s) and a buffer holding
\* exactly s, in order.
C4_BuiltHoldsSequence ==
    (/\ sel.pc = "done"
     /\ \/ sel.via = "new_copy"
        \/ sel.via = "from_iter" /\ sel.lower = Len(sel.src))
    => (/\ sel.built
        /\ sel.self_len = Len(sel.src)
        /\ sel.buf = sel.src
        /\ sel.oob = {})

\* from_iter finished on a sequence longer than the standard vector size
C4_Witness ==
    /\ sel.pc = "done" /\ sel.via = "from_iter"
    /\ sel.lower = Len(sel.src) /\ Len(sel.src) > duckdb_vector_size
    /\ sel.src[1] # sel.src[2]

\* C5: on a freshly allocated vector under set_null, validity_slice and
\* init_get_validity_slice, row_is_null(r) holds exactly for the rows r on
\* which set_null(r) was called, seen through the owner or any clone.
C5_NullExactlyWhereSet ==
    \A i \in Insts :
        Usable(i) =>
            \A r \in 0..(capacity(fv[i]) - 1) :
                row_is_null(fv[i], r) <=> r \in nulled[fv[i].ptr]

\* rows on both sides of a word boundary were marked, and one was read back
C5_Witness ==
    /\ Valid(1) /\ nulled[1] = {BitsPerWord - 1, BitsPerWord}
    /\ last.op = "row_is_null" /\ last.res = TRUE

\* C6: copy(d) with Len(d) > capacity() fails and changes no element; with
\* Len(d) <= capacity() it writes d to positions 0..Len(d)-1 of the
\* vector's buffer and changes nothing else.
C6_CopyAllOrNothing ==
    [][\A i \in Insts, d \in SeqsUpTo(Elem, MaxCap) :
          Copy(i, d) =>
              LET h == fv[i].ptr
              IN  IF Len(d) > capacity(fv[i])
                  THEN last'.res = "panic" /\ data' = data /\ heap' = "ok"
                  ELSE /\ last'.res = "ok" /\ heap' = "ok"
                       /\ Len(d) <= Len(data'[h])
                       /\ data' = [data EXCEPT ![h] =
                              [k \in 1..Len(data[h]) |->
                                  IF k <= Len(d) THEN d[k] ELSE data[h][k]]]]_vars

\* C7: set_child(d), that is child(Len(d)).copy(d) then set_len(Len(d)),
\* leaves len() = Len(d), is_empty() iff d is empty, the first Len(d)
\* elements of the child equal to d, and the child buffer at least that long.
C7_ListRoundTrip ==
    [][\A d \in SeqsUpTo(Elem, MaxCap) :
          SetChild(1, d) =>
              /\ list_len(fv[1].ptr)' = Len(d)
              /\ (is_empty(fv[1].ptr)' <=> Len(d) = 0)
              /\ as_slice_with_len(with_capacity(childOf[fv[1].ptr], Len(d)), Len(d))' = d
              /\ list_len(fv[1].ptr)' <= alloc'[childOf[fv[1].ptr]]]_vars

\* the list holds MaxCap elements, more than the child held at first
C7_Witness ==
    /\ Valid(1) /\ kind[1] = "list" /\ list_len(1) = MaxCap
    /\ alloc[2] > duckdb_vector_size
    /\ \A k \in 1..MaxCap : data[2][k] = k % 2

Holders(p) == {k \in Vals : val[k].st = "live" /\ val[k].ptr = p}

\* C8: a native scalar is released exactly once, by the drop of the Value
\* holding it: it is unreleased while a Value holds it and released once
\* when none does; a dropped Value has a null handle; to_int64, Display and
\* assign_to_constant leave every Value and every release count as they were.
C8_ReleasedOnceAtDrop ==
    /\ [](\A p \in Vals :
            /\ Cardinality(Holders(p)) <= 1
            /\ vcreated[p] => vreleases[p] = (IF Holders(p) # {} THEN 0 ELSE 1)
            /\ ~vcreated[p] => vreleases[p] = 0)
    /\ [](\A k \in Vals : val[k].st = "dropped" => val[k].ptr = NULL)
    /\ [][\A k \in Vals :
            (ToInt64(k) \/ Display(k) \/ AssignToConstant(1, k))
                => (val' = val /\ vreleases' = vreleases /\ vcreated' = vcreated)]_vars

\* a Value was assigned to a vector as its constant and then dropped, and a
\* Value built from a null handle was dropped without a release
C8_Witness ==
    /\ val[1] = [st |-> "dropped", ptr |-> NULL] /\ vreleases[1] = 1
    /\ val[2] = [st |-> "dropped", ptr |-> NULL] /\ ~vcreated[2]
    /\ Live(1) /\ capacity(fv[1]) = 1 /\ alloc[1] = 1

\* C9 as stated: in every dictionary made by slice, the selection's length
\* is at most the dictionary length.
C9_SelectionWithinDictionary ==
    \A h \in Handles : dict[h].sliced => dict[h].count <= dict[h].dict_len

\* C9, amended: the DictionaryVector slice returns holds the handle of the
\* vector that was sliced and owns nothing (its going away destroys no
\* native vector); the dictionary records the selection's own length, which
\* slice passes on unchecked against dict_len.
C9_DictionaryBorrowsHandle ==
    /\ [](dv.st = "live" =>
            /\ dv.ptr \in Handles /\ created[dv.ptr]
            /\ dict[dv.ptr].sliced
            /\ dict[dv.ptr].count = Len(dict[dv.ptr].sel))
    /\ [][\A i \in Insts, dict_len \in Caps, n \in 0..MaxItems :
            Slice(i, dict_len, new_copy(Zeros(n)))
                => (dv'.ptr = fv[i].ptr /\ destroys' = destroys /\ fv' = fv)]_vars
    /\ [][DropDictionaryVector => destroys' = destroys]_vars

\* a vector was sliced with a selection longer than the dictionary length
C9_Witness ==
    /\ dv.st = "live" /\ Valid(dv.ptr)
    /\ dict[dv.ptr].count > dict[dv.ptr].dict_len

\* C10 as stated: each of child, struct_child, list_child and array_child
\* reserves before it returns.
C10_EveryAccessorReserves ==
    last.op \in {"child", "struct_child", "list_child", "array_child"}
        => last.reserved

\* what child(cap) and struct_child(cap) leave behind
ReservePost(cap) ==
    LET c == childOf[fv[1].ptr]
    IN  /\ alloc'[c] >= cap
        /\ cap <= alloc[c] => (alloc'[c] = alloc[c] /\ data'[c] = data[c])
        /\ SubSeq(data'[c], 1, alloc[c]) = data[c]
        /\ \A v \in Insts : Live(v) => (fv'[v] = fv[v] /\ Valid(fv[v].ptr)')

\* C10, amended: child(cap) and struct_child(cap) reserve at least cap in the
\* child storage, reserve nothing when cap is already granted, and keep the
\* child's contents and every earlier view; list_child and array_child take
\* no capacity and reserve nothing; the reserved capacity never decreases and
\* every view's capacity stays within it.
C10_ReserveGrowsOnly ==
    /\ [][/\ \A i \in Insts, cap \in 0..MaxCap :
                (ListChild(i, 1, cap) \/ ListStructChild(1, cap)) => ReservePost(cap)
          /\ (ListArrayChild(1) \/ ListListChild(1))
                => (alloc' = alloc /\ data' = data /\ fv' = fv)
          /\ \A h \in Handles : alloc'[h] >= alloc[h]]_vars
    /\ [](\A v \in Insts \ {1} :
            Live(v) => capacity(fv[v]) <= alloc[fv[v].ptr])

\* a view of the child is alive, the child has grown past its first size,
\* and struct_child was called after the view was returned
C10_Witness ==
    /\ Live(2) /\ fv[2].ptr = 2 /\ Valid(2)
    /\ alloc[2] > duckdb_vector_size
    /\ last.op = "struct_child"

\* C11: over an instance's lifetime no operation changes its ownership flag,
\* and none changes its capacity except assign_to_constant, which sets it to
\* 1, and reference(other), which sets it to other's capacity; the other
\* live instances (clones, the referenced vector) keep both fields as well.
C11_CapacityFrame ==
    [][\A i \in Insts : (Live(i) /\ Live(i)') =>
          /\ fv'[i].owned = fv[i].owned
          /\ \/ fv'[i].capacity = capacity(fv[i])
             \/ \E k \in Vals : AssignToConstant(i, k)
             \/ \E j \in Insts : Reference(i, j)
          /\ (\E k \in Vals : AssignToConstant(i, k)) => fv'[i].capacity = 1
          /\ \A j \in Insts : Reference(i, j) => fv'[i].capacity = capacity(fv[j])]_fv

\* an owner whose capacity reference() replaced by the engine vector's, next
\* to an instance assign_to_constant collapsed to 1; both kept their flags
C11_Witness ==
    \E i \in Insts, j \in Insts :
        /\ Live(i) /\ fv[i].owned /\ capacity(fv[i]) = duckdb_vector_size
        /\ Live(j) /\ ~fv[j].owned /\ capacity(fv[j]) = 1 /\ alloc[fv[j].ptr] = 1

\* C12: the declared capacity of every live instance over an existing native
\* vector is at most the number of elements allocated behind its handle.
C12_CapacityWithinAllocation ==
    \A i \in Insts :
        (Live(i) /\ Valid(fv[i].ptr)) => capacity(fv[i]) <= alloc[fv[i].ptr]

===========================================================================
